---- MODULE Spec2Model ----
(***************************************************************************)
(* Model of apply_tour_patch.py: a script that reads a target file, tests  *)
(* that a literal block `old` occurs in the text it read, and writes the   *)
(* text back with the first occurrence replaced by `new`.                  *)
(*                                                                         *)
(* Text is a sequence of characters.  One process is one execution of the  *)
(* script; its position is pc[p]:                                          *)
(*    "start"  before line 4   (data = path.read_text())                   *)
(*    "check"  before line 184 (if old not in data)                        *)
(*    "write"  before line 186 (path.write_text(...))                      *)
(*    "flush"  inside write_text: the file has been opened in mode "w"     *)
(*             (and so truncated) and the text is not yet written          *)
(* and one of the terminal positions "done", "TargetNotFound",             *)
(* "BlockNotFound", "WriteFailed".                                         *)
(***************************************************************************)
EXTENDS Integers, Sequences, FiniteSets, TLC

Alphabet == {"a", "b"}

\* Bounds of the sequential specification.
MaxFile == 3
MaxOld == 2
MaxNew == 2
MaxRuns == 3

\* Bounds of the two-process specification.
MaxRaceFile == 2
MaxRaceBlock == 1

Procs == {1, 2}
SeqProcs == {1}

Terminal == {"done", "TargetNotFound", "BlockNotFound", "WriteFailed"}

TextUpTo(n) == UNION {[1..k -> Alphabet] : k \in 0..n}

VARIABLES
    exists,   \* the path references an existing, readable file
    file,     \* content of the target file on disk
    old,      \* old[p]: the literal `old` of the script process p executes
    new,      \* new[p]: the literal `new` of the script process p executes
    pc,       \* pc[p]: position of process p in the script
    data,     \* data[p]: the module-level variable `data`
    reads,    \* reads[p]: read_text calls made by the current run
    writes,   \* writes[p]: write_text calls that reached the file in the current run
    runs,     \* number of executions of the script started so far
    hist,     \* outcomes of the earlier executions, oldest first
    lastw,    \* the process whose write_text wrote its text last (0: none)
    file0     \* the content of the file before the first execution

vars == <<exists, file, old, new, pc, data, reads, writes, runs, hist, lastw, file0>>

-----------------------------------------------------------------------------
(* str.__contains__ and str.replace(old, new, 1) *)

\* o occurs in s at 0-based offset i
MatchAt(s, o, i) ==
    /\ i + Len(o) <= Len(s)
    /\ \A k \in 1..Len(o) : s[i + k] = o[k]

\* str.find scanning from offset i: the lowest offset >= i where o occurs, -1 if none
RECURSIVE FindFrom(_, _, _)
FindFrom(s, o, i) ==
    IF i + Len(o) > Len(s) THEN -1
    ELSE IF MatchAt(s, o, i) THEN i
    ELSE FindFrom(s, o, i + 1)

Find(s, o) == FindFrom(s, o, 0)

\* `o in s`
Contains(s, o) == Find(s, o) # -1

\* the text after offset i (0-based), i.e. s[i:]
From(s, i) == SubSeq(s, i + 1, Len(s))

\* s.replace(o, n) with no count: every non-overlapping occurrence, left to right
RECURSIVE ReplaceAll(_, _, _)
ReplaceAll(s, o, n) ==
    IF o = <<>> THEN
        IF s = <<>> THEN n ELSE n \o <<s[1]>> \o ReplaceAll(From(s, 1), o, n)
    ELSE IF Find(s, o) = -1 THEN s
    ELSE SubSeq(s, 1, Find(s, o)) \o n
             \o ReplaceAll(From(s, Find(s, o) + Len(o)), o, n)

\* the splice resumes one character early: the last character of o is kept
ReplaceKeepLast(s, o, n) ==
    IF Find(s, o) = -1 THEN s
    ELSE SubSeq(s, 1, Find(s, o)) \o n
             \o From(s, IF Len(o) = 0 THEN 0 ELSE Find(s, o) + Len(o) - 1)

\* s.replace(o, n, 1): the leftmost occurrence only
Replace(s, o, n) ==
    IF Find(s, o) = -1 THEN s
    ELSE SubSeq(s, 1, Find(s, o)) \o n \o From(s, Find(s, o) + Len(o))

\* write(2) of text t at offset 0 of a file holding f: bytes of f beyond Len(t) stay
Overlay(f, t) == t \o From(f, IF Len(t) < Len(f) THEN Len(t) ELSE Len(f))

\* the test on the file as it is on disk now, not on the text read at line 4
PresentOnDisk(p) == Contains(file, old[p])

\* no test at all
PresentAlways(p) == TRUE

\* line 184: `old in data`
Present(p) == Contains(data[p], old[p])

\* the text handed to write_text at line 186
Output(p) == Replace(data[p], old[p], new[p])

-----------------------------------------------------------------------------
(* Initial states *)

InitCommon ==
    /\ exists \in BOOLEAN
    /\ exists = FALSE => file = <<>>
    /\ file0 = file
    /\ pc = [p \in Procs |-> "start"]
    /\ data = [p \in Procs |-> <<>>]
    /\ reads = [p \in Procs |-> 0]
    /\ writes = [p \in Procs |-> 0]
    /\ hist = <<>>
    /\ lastw = 0

\* one script, executed again and again by process 1
Init ==
    /\ file \in TextUpTo(MaxFile)
    /\ \E o \in TextUpTo(MaxOld), n \in TextUpTo(MaxNew) :
          /\ old = [p \in Procs |-> o]
          /\ new = [p \in Procs |-> n]
    /\ runs = 1
    /\ InitCommon

\* two scripts, each executed once, at the same time
InitRace ==
    /\ file \in TextUpTo(MaxRaceFile)
    /\ old \in [Procs -> TextUpTo(MaxRaceBlock)]
    /\ new \in [Procs -> TextUpTo(MaxRaceBlock)]
    /\ runs = 2
    /\ InitCommon

-----------------------------------------------------------------------------
(* The steps of the script *)

\* line 4: data = path.read_text()
Read(p) ==
    /\ pc[p] = "start"
    /\ reads' = [reads EXCEPT ![p] = @ + 1]
    /\ IF exists
          THEN /\ data' = [data EXCEPT ![p] = file]
               /\ pc' = [pc EXCEPT ![p] = "check"]
          ELSE /\ data' = data
               /\ pc' = [pc EXCEPT ![p] = "TargetNotFound"]
    /\ UNCHANGED <<exists, file, old, new, writes, runs, hist, lastw, file0>>

\* the write comes before the test
CheckAfterWrite(p) ==
    /\ pc[p] = "check"
    /\ IF ~Present(p)
          THEN /\ pc' = [pc EXCEPT ![p] = "BlockNotFound"]
               /\ file' = Output(p)
               /\ writes' = [writes EXCEPT ![p] = @ + 1]
          ELSE /\ pc' = [pc EXCEPT ![p] = "write"]
               /\ UNCHANGED <<file, writes>>
    /\ UNCHANGED <<exists, old, new, data, reads, runs, hist, lastw, file0>>

\* lines 184-185: if old not in data: raise SystemExit("block not found")
Check(p) ==
    /\ pc[p] = "check"
    /\ pc' = [pc EXCEPT ![p] = IF ~Present(p) THEN "BlockNotFound" ELSE "write"]
    /\ UNCHANGED <<exists, file, old, new, data, reads, writes, runs, hist, lastw, file0>>

\* line 186, write_text, first half: open(path, "w") truncates the file
Open(p) ==
    /\ pc[p] = "write"
    /\ file' = <<>>
    /\ writes' = [writes EXCEPT ![p] = @ + 1]
    /\ pc' = [pc EXCEPT ![p] = "flush"]
    /\ UNCHANGED <<exists, old, new, data, reads, runs, hist, lastw, file0>>

\* line 186, write_text, second half: the text is written at offset 0 and the file closed
WriteData(p) ==
    /\ pc[p] = "flush"
    /\ file' = Overlay(file, Output(p))
    /\ lastw' = p
    /\ pc' = [pc EXCEPT ![p] = "done"]
    /\ UNCHANGED <<exists, old, new, data, reads, writes, runs, hist, file0>>

\* line 186 does not complete: open fails (nothing touched), or the process is
\* interrupted after the truncation with only the first k characters written
Interrupt(p) ==
    /\ \/ /\ pc[p] = "write"
          /\ file' = file
       \/ /\ pc[p] = "flush"
          /\ \E k \in 0..(Len(Output(p)) - 1) :
                file' = Overlay(file, SubSeq(Output(p), 1, k))
    /\ pc' = [pc EXCEPT ![p] = "WriteFailed"]
    /\ UNCHANGED <<exists, old, new, data, reads, writes, runs, hist, lastw, file0>>

\* the script is executed again after an execution has ended
Rerun(p) ==
    /\ pc[p] \in Terminal
    /\ runs < MaxRuns
    /\ runs' = runs + 1
    /\ hist' = Append(hist, [status |-> pc[p], after |-> file])
    /\ pc' = [pc EXCEPT ![p] = "start"]
    /\ data' = [data EXCEPT ![p] = <<>>]
    /\ reads' = [reads EXCEPT ![p] = 0]
    /\ writes' = [writes EXCEPT ![p] = 0]
    /\ UNCHANGED <<exists, file, old, new, lastw, file0>>

Next ==
    \E p \in SeqProcs :
        \/ Read(p)
        \/ Check(p)
        \/ Open(p)
        \/ WriteData(p)
        \/ Interrupt(p)
        \/ Rerun(p)

NextRace ==
    \E p \in Procs :
        \/ Read(p)
        \/ Check(p)
        \/ Open(p)
        \/ WriteData(p)
        \/ Interrupt(p)

Spec == Init /\ [][Next]_vars

SpecRace == InitRace /\ [][NextRace]_vars

TypeOK ==
    /\ exists \in BOOLEAN
    /\ pc \in [Procs -> {"start", "check", "write", "flush"} \cup Terminal]
    /\ reads \in [Procs -> 0..1]
    /\ writes \in [Procs -> 0..1]
    /\ runs \in 1..MaxRuns
    /\ lastw \in {0} \cup Procs

-----------------------------------------------------------------------------
(* Properties *)

\* the number of offsets at which o occurs in s
Occ(s, o) == Cardinality({i \in 0..Len(s) : MatchAt(s, o, i)})

\* s with the occurrence of o at offset i replaced by n
Splice(s, o, n, i) == SubSeq(s, 1, i) \o n \o SubSeq(s, i + Len(o) + 1, Len(s))

\* the outcome of the execution before the current one
Prev == hist[Len(hist)]

\* no write of the series of executions has been interrupted
NoInterrupt ==
    /\ pc[1] # "WriteFailed"
    /\ \A i \in DOMAIN hist : hist[i].status # "WriteFailed"

\* C1 as claimed: whenever an execution succeeded, the next execution of the
\* same script that runs to its end (with a non-empty old) ends in
\* BlockNotFound without a write, the file being as the first execution left it.
C1_SecondApplyAlwaysFails ==
    (/\ hist # <<>>
     /\ Prev.status = "done"
     /\ old[1] # <<>>
     /\ pc[1] \in {"done", "BlockNotFound"})
        => /\ pc[1] = "BlockNotFound"
           /\ writes[1] = 0
           /\ file = Prev.after

\* C1 amended: whenever an execution succeeded and left a content in which
\* old does not occur, the next execution of the same script gets no further
\* than the test of line 184, ends in BlockNotFound, performs no write, and
\* the file stays as the first execution left it.
C1_SecondApplyFailsWhenOldGone ==
    (/\ hist # <<>>
     /\ Prev.status = "done"
     /\ ~Contains(Prev.after, old[1]))
        => /\ pc[1] \in {"start", "check", "BlockNotFound"}
           /\ writes[1] = 0
           /\ file = Prev.after

\* a first execution has replaced old, and the second has ended in BlockNotFound
C1_Witness ==
    /\ Len(hist) = 1
    /\ Prev.status = "done"
    /\ Prev.after # file0
    /\ pc[1] = "BlockNotFound"

\* C2: when old does not occur in the content read, the execution ends in
\* BlockNotFound, never reaches the write (no write_text call is made), and
\* the file holds exactly the content that was read.
C2_NoOpOnFailure ==
    \A p \in SeqProcs :
        (/\ pc[p] \notin {"start", "TargetNotFound"}
         /\ ~Contains(data[p], old[p]))
            => /\ pc[p] \in {"check", "BlockNotFound"}
               /\ writes[p] = 0
               /\ file = data[p]

\* a first execution on a non-empty file has ended in BlockNotFound
C2_Witness ==
    /\ hist = <<>>
    /\ pc[1] = "BlockNotFound"
    /\ file0 # <<>>
    /\ file = file0
    /\ Occ(file0, old[1]) = 0

\* C3: when the content read contains old exactly once, C = P + old + S, a
\* successful execution leaves the file equal to P + new + S, and the length
\* of the file is len(C) - len(old) + len(new).
C3_Exactness ==
    \A p \in SeqProcs :
        (pc[p] = "done" /\ Occ(data[p], old[p]) = 1)
            => \A i \in 0..Len(data[p]) :
                  MatchAt(data[p], old[p], i)
                     => /\ file = Splice(data[p], old[p], new[p], i)
                        /\ Len(file) = Len(data[p]) - Len(old[p]) + Len(new[p])

\* a single occurrence with a non-empty prefix and suffix has been replaced by a longer block
C3_Witness ==
    /\ pc[1] = "done"
    /\ Occ(data[1], old[1]) = 1
    /\ Len(data[1]) = 3
    /\ Len(old[1]) = 1
    /\ MatchAt(data[1], old[1], 1)
    /\ Len(new[1]) = 2

\* C4: when the content read contains old two or more times, the execution
\* passes the test (there is no uniqueness error) and a successful execution
\* leaves P + new + S, where P is the shortest prefix followed by old and S,
\* with every later occurrence, is kept as it was.
C4_FirstOccurrence ==
    \A p \in SeqProcs :
        (pc[p] \notin {"start", "check", "TargetNotFound"} /\ Occ(data[p], old[p]) >= 2)
            => /\ pc[p] \in {"write", "flush", "done", "WriteFailed"}
               /\ pc[p] = "done" =>
                     \E i \in 0..Len(data[p]) :
                        /\ MatchAt(data[p], old[p], i)
                        /\ \A j \in 0..(i - 1) : ~MatchAt(data[p], old[p], j)
                        /\ file = Splice(data[p], old[p], new[p], i)

\* "aba" with old "a" and new "b" has become "bba"
C4_Witness ==
    /\ pc[1] = "done"
    /\ data[1] = <<"a", "b", "a">>
    /\ old[1] = <<"a">>
    /\ new[1] = <<"b">>
    /\ file = <<"b", "b", "a">>

\* C5 as claimed: in every state of an execution (of a patch with a non-empty
\* old) that has read the file, interrupted ones included, the file holds
\* either the complete content read or the complete patched content.
C5_AtomicWrite ==
    \A p \in SeqProcs :
        (pc[p] \notin {"start", "TargetNotFound"} /\ old[p] # <<>>)
            => file \in {data[p], Output(p)}

C7_EmptyOldRejected ==
    \A p \in SeqProcs :
        (exists /\ old[p] = <<>>)
            => /\ reads[p] = 0
               /\ writes[p] = 0
               /\ file = file0

\* C8 as claimed: when both executions (of patches with a non-empty old)
\* passed their test and wrote, the file holds the text computed by the one
\* that wrote last from its own read.
C8_LastWriterWins ==
    (/\ pc[1] = "done"
     /\ pc[2] = "done"
     /\ old[1] # <<>>
     /\ old[2] # <<>>)
        => file = Output(lastw)

\* C9: the test is made on the content read at the start: two executions of
\* the same patch that both read the original content, in which old occurs
\* exactly once, both pass the test whatever the file holds by then, so that
\* neither reports BlockNotFound; and in general an execution is past the
\* test exactly when old occurs in the content it read.
C9_StaleCheck ==
    /\ \A p \in Procs :
          /\ pc[p] \in {"write", "flush", "done", "WriteFailed"} => Contains(data[p], old[p])
          /\ pc[p] = "BlockNotFound" => ~Contains(data[p], old[p])
    /\ (/\ old[1] = old[2]
        /\ new[1] = new[2]
        /\ Occ(file0, old[1]) = 1
        /\ \A p \in Procs : pc[p] \notin {"start", "TargetNotFound"} /\ data[p] = file0)
           => \A p \in Procs : pc[p] # "BlockNotFound"

\* both read before either wrote; the first has written, and the second, past
\* its test, is about to overwrite a file in which old no longer occurs
C9_Witness ==
    /\ old[1] = old[2]
    /\ new[1] = new[2]
    /\ old[1] # <<>>
    /\ Occ(file0, old[1]) = 1
    /\ data[1] = file0
    /\ data[2] = file0
    /\ pc[1] = "done"
    /\ pc[2] = "write"
    /\ ~Contains(file, old[2])

====
